---- MODULE Spec2Model ----
(***************************************************************************)
(* Sidebar ordering and drag-and-drop reparenting of the space tabs.       *)
(*                                                                         *)
(* A sidebar is an ordered sequence of items.  An item is either a bare    *)
(* space reference (a string in the source) or a folder.  Both are records *)
(* here; the field "type" carries what `typeof` answers in the source:     *)
(*    [type |-> "string", id |-> spaceId]                                  *)
(*    [type |-> "object", id |-> folderId, name |-> .., content |-> <<..>>]*)
(* A draggable is the same bare-space record, or a folder draggable        *)
(*    [type |-> "object", folder |-> F, spaceId |-> .., open |-> ..].      *)
(***************************************************************************)
EXTENDS Naturals, Sequences, FiniteSets, TLC

VARIABLES
    sidebarItems,   \* the in-memory sidebar (useSidebarItems state)
    openedFolder,   \* the opened-folder store: a set of folder ids
    orphanSpaces,   \* spaces without a parent space (useOrphanSpaces)
    draggingItem,   \* the dragging indicator (setDraggingItem)
    source,         \* source.data.item of the drag in flight, or NoDrag
    dropTargets,    \* location.current.dropTargets: data of the hovered target
    accountData,    \* content last handed to mx.setAccountData
    lastReorder,    \* the arguments and result of the last onReorder call
    sink            \* the writes handed to mx.setAccountData and their fate

vars == <<sidebarItems, openedFolder, orphanSpaces, draggingItem, source,
          dropTargets, accountData, lastReorder, sink>>

---------------------------------------------------------------------------
(* Bounds and universes *)

NumSpaces == 3

SpaceIds == <<"A", "B", "C", "D", "E", "G">>
FolderIdPool == <<"f1", "f2", "f3", "f4", "f5", "f6", "f7">>

Spaces == {SpaceIds[k] : k \in 1..NumSpaces}
\* as many ids as there can be folders
FolderIds == {FolderIdPool[k] : k \in 1..NumSpaces}

\* JS undefined, for optional strings and optional values
Undefined == "undefined"
NoName == Undefined

\* JS undefined where a draggable is expected, and null
UndefinedItem == [type |-> "undefined"]
Null == "null"

NoDrag == [type |-> "none"]
NoCall == [called |-> FALSE]

\* no handler has run and no write is in flight
NoWrites == [log |-> <<>>, inFlight |-> <<>>, commits |-> 0, issued |-> 0,
             settled |-> "none", request |-> Undefined, external |-> 0]

ReorderAbove == "reorder-above"
ReorderBelow == "reorder-below"
MakeChild == "make-child"
InstructionBlocked == "instruction-blocked"

---------------------------------------------------------------------------
(* Sequence helpers (Array.prototype.includes / filter / concat of pushes) *)

Includes(seq, x) == \E k \in DOMAIN seq : seq[k] = x

Without(seq, x) == SelectSeq(seq, LAMBDA s : s # x)

RECURSIVE Flatten(_)
Flatten(seqs) ==
    IF seqs = <<>> THEN <<>> ELSE Head(seqs) \o Flatten(Tail(seqs))

Range(seq) == {seq[k] : k \in DOMAIN seq}

\* `if (x)` on an optional string
Truthy(x) == x # Undefined /\ x # ""

---------------------------------------------------------------------------
(* Item and draggable shapes *)

Str(s) == [type |-> "string", id |-> s]

Folder(id, name, content) ==
    [type |-> "object", id |-> id, name |-> name, content |-> content]

\* SpaceTab: a space inside a folder
FolderSpace(folder, s) ==
    [type |-> "object", folder |-> folder, spaceId |-> s, open |-> FALSE]

\* SpaceFolder: the header of a folder
FolderHeader(folder) ==
    [type |-> "object", folder |-> folder, spaceId |-> Undefined, open |-> TRUE]

\* ClosedSpaceFolder: the folder as a whole
FolderClosed(folder) ==
    [type |-> "object", folder |-> folder, spaceId |-> Undefined, open |-> FALSE]

---------------------------------------------------------------------------
(* The reconciliation pass of onReorder *)

matchDest(sI, dI) ==
    IF sI.type = "string" /\ dI.type = "string" THEN sI.id = dI.id
    ELSE IF sI.type = "object" /\ dI.type = "object" THEN sI.id = dI.folder.id
    ELSE FALSE

itemAsFolderContent(i) ==
    IF i.type = "string" THEN <<i.id>>
    ELSE IF Truthy(i.spaceId) THEN <<i.spaceId>>
    ELSE i.folder.content

sameFolders(item, containerItem) ==
    /\ item.type = "object"
    /\ containerItem.type = "object"
    /\ item.folder.id = containerItem.folder.id

\* What one iteration of the forEach does: the items it pushes to newItems
\* and the folder ids it deletes from the opened-folder store.
Emit(items, ids) == [push |-> items, del |-> ids]

\* removeDraggable leaving the drag item where it was
removeDraggable_Keeps(item) ==
    IF item.type = "string" THEN Emit(<<item>>, {}) ELSE Emit(<<item.folder>>, {})

\* removeDraggable without the test for an emptied folder
removeDraggable_KeepsEmpty(item) ==
    IF item.type = "object" /\ Truthy(item.spaceId)
    THEN Emit(<<[item.folder EXCEPT
                    !.content = Without(item.folder.content, item.spaceId)]>>, {})
    ELSE Emit(<<>>, {})

\* removeDraggable deleting the opened state of every folder a space leaves
removeDraggable_ClosesFolder(item) ==
    IF item.type = "object" /\ Truthy(item.spaceId)
    THEN LET folderContent == Without(item.folder.content, item.spaceId)
         IN  IF Len(folderContent) = 0
             THEN Emit(<<>>, {item.folder.id})
             ELSE Emit(<<[item.folder EXCEPT !.content = folderContent]>>,
                       {item.folder.id})
    ELSE Emit(<<>>, {})

\* "remove draggable space from current position or folder"
removeDraggable(item) ==
    IF item.type = "object" /\ Truthy(item.spaceId)
    THEN LET folderContent == Without(item.folder.content, item.spaceId)
         IN  IF Len(folderContent) = 0
             THEN Emit(<<>>, {item.folder.id})
             ELSE Emit(<<[item.folder EXCEPT !.content = folderContent]>>, {})
    ELSE Emit(<<>>, {})

\* makeChild forgetting the container space in the new folder
makeChild_OnlyChild(item, containerItem, newId) ==
    LET child == itemAsFolderContent(item)
    IN  IF containerItem.type = "string"
        THEN Emit(<<Folder(newId, NoName, child)>>, {})
        ELSE Emit(<<[containerItem.folder EXCEPT
                        !.content = containerItem.folder.content \o child]>>, {})

\* makeChild building a new folder under a new id for a folder container too
makeChild_AlwaysNewFolder(item, containerItem, newId) ==
    LET child == itemAsFolderContent(item)
    IN  IF containerItem.type = "string"
        THEN Emit(<<Folder(newId, NoName, <<containerItem.id>> \o child)>>, {})
        ELSE Emit(<<Folder(newId, NoName, containerItem.folder.content \o child)>>, {})

\* makeChild putting the drag content before the container space
makeChild_ChildFirst(item, containerItem, newId) ==
    LET child == itemAsFolderContent(item)
    IN  IF containerItem.type = "string"
        THEN Emit(<<Folder(newId, NoName, child \o <<containerItem.id>>)>>, {})
        ELSE Emit(<<[containerItem.folder EXCEPT
                        !.content = containerItem.folder.content \o child]>>, {})

\* makeChild putting the drag content in front of the folder's content
makeChild_Prepends(item, containerItem, newId) ==
    LET child == itemAsFolderContent(item)
    IN  IF containerItem.type = "string"
        THEN Emit(<<Folder(newId, NoName, <<containerItem.id>> \o child)>>, {})
        ELSE Emit(<<[containerItem.folder EXCEPT
                        !.content = child \o containerItem.folder.content]>>, {})

\* instructionType === 'make-child'; newId is what randomStr() returned
makeChild(item, containerItem, newId) ==
    LET child == itemAsFolderContent(item)
    IN  IF containerItem.type = "string"
        THEN Emit(<<Folder(newId, NoName, <<containerItem.id>> \o child)>>, {})
        ELSE Emit(<<[containerItem.folder EXCEPT
                        !.content = containerItem.folder.content \o child]>>, {})

\* dropInsideFolder without the filter that removes the drag content first
dropInsideFolder_NoDedup(item, containerItem, instructionType) ==
    LET child == itemAsFolderContent(item)
        kept == containerItem.folder.content
        pushed(sId) ==
            IF sId = containerItem.spaceId
            THEN (IF instructionType = ReorderBelow THEN <<sId>> \o child ELSE <<>>)
                 \o (IF instructionType = ReorderAbove THEN child \o <<sId>> ELSE <<>>)
            ELSE <<sId>>
        newContent == Flatten([k \in DOMAIN kept |-> pushed(kept[k])])
    IN  Emit(<<[containerItem.folder EXCEPT !.content = newContent]>>, {})

\* dropInsideFolder putting the drag content at the end of the folder
dropInsideFolder_AtEnd(item, containerItem, instructionType) ==
    LET child == itemAsFolderContent(item)
        kept == SelectSeq(containerItem.folder.content,
                          LAMBDA sId : ~Includes(child, sId))
    IN  Emit(<<[containerItem.folder EXCEPT !.content = kept \o child]>>, {})

\* dropInsideFolder building the folder anew, without its name
dropInsideFolder_DropsName(item, containerItem, instructionType) ==
    LET child == itemAsFolderContent(item)
        kept == SelectSeq(containerItem.folder.content,
                          LAMBDA sId : ~Includes(child, sId))
        pushed(sId) ==
            IF sId = containerItem.spaceId
            THEN (IF instructionType = ReorderBelow THEN <<sId>> \o child ELSE <<>>)
                 \o (IF instructionType = ReorderAbove THEN child \o <<sId>> ELSE <<>>)
            ELSE <<sId>>
        newContent == Flatten([k \in DOMAIN kept |-> pushed(kept[k])])
    IN  Emit(<<Folder(containerItem.folder.id, NoName, newContent)>>, {})

\* "drop inside opened folder or reordering inside same folder"
dropInsideFolder(item, containerItem, instructionType) ==
    LET child == itemAsFolderContent(item)
        kept == SelectSeq(containerItem.folder.content,
                          LAMBDA sId : ~Includes(child, sId))
        pushed(sId) ==
            IF sId = containerItem.spaceId
            THEN (IF instructionType = ReorderBelow THEN <<sId>> \o child ELSE <<>>)
                 \o (IF instructionType = ReorderAbove THEN child \o <<sId>> ELSE <<>>)
            ELSE <<sId>>
        newContent == Flatten([k \in DOMAIN kept |-> pushed(kept[k])])
    IN  Emit(<<[containerItem.folder EXCEPT !.content = newContent]>>, {})

\* dropAboveBelow not emitting a space of a folder dropped below the container
dropAboveBelow_LosesBelow(i, item, containerItem, instructionType) ==
    LET below == IF instructionType = ReorderBelow THEN <<i>> ELSE <<>>
        above == IF instructionType = ReorderAbove THEN <<i>> ELSE <<>>
    IN  IF item.type = "string"
        THEN Emit(below \o <<item>> \o above, {})
        ELSE IF Truthy(item.spaceId)
        THEN LET first == IF instructionType = ReorderAbove
                          THEN <<Str(item.spaceId)>> ELSE <<>>
                 newI == [i EXCEPT !.content = Without(i.content, item.spaceId)]
                 mid == IF sameFolders(item, containerItem) /\ i.type = "object"
                        THEN (IF Len(newI.content) > 0 THEN <<newI>> ELSE <<>>)
                        ELSE <<i>>
             IN  Emit(first \o mid, {})
        ELSE Emit(below \o <<item.folder>> \o above, {})

\* dropAboveBelow with above and below exchanged
dropAboveBelow_Swapped(i, item, containerItem, instructionType) ==
    LET below == IF instructionType = ReorderAbove THEN <<i>> ELSE <<>>
        above == IF instructionType = ReorderBelow THEN <<i>> ELSE <<>>
    IN  IF item.type = "string"
        THEN Emit(below \o <<item>> \o above, {})
        ELSE IF Truthy(item.spaceId)
        THEN LET first == IF instructionType = ReorderBelow
                          THEN <<Str(item.spaceId)>> ELSE <<>>
                 last == IF instructionType = ReorderAbove
                         THEN <<Str(item.spaceId)>> ELSE <<>>
                 newI == [i EXCEPT !.content = Without(i.content, item.spaceId)]
                 mid == IF sameFolders(item, containerItem) /\ i.type = "object"
                        THEN (IF Len(newI.content) > 0 THEN <<newI>> ELSE <<>>)
                        ELSE <<i>>
             IN  Emit(first \o mid \o last, {})
        ELSE Emit(below \o <<item.folder>> \o above, {})

\* dropAboveBelow emitting a dragged folder without its name
dropAboveBelow_DropsName(i, item, containerItem, instructionType) ==
    LET below == IF instructionType = ReorderBelow THEN <<i>> ELSE <<>>
        above == IF instructionType = ReorderAbove THEN <<i>> ELSE <<>>
    IN  IF item.type = "string"
        THEN Emit(below \o <<item>> \o above, {})
        ELSE IF Truthy(item.spaceId)
        THEN LET first == IF instructionType = ReorderAbove
                          THEN <<Str(item.spaceId)>> ELSE <<>>
                 last == IF instructionType = ReorderBelow
                         THEN <<Str(item.spaceId)>> ELSE <<>>
                 newI == [i EXCEPT !.content = Without(i.content, item.spaceId)]
                 mid == IF sameFolders(item, containerItem) /\ i.type = "object"
                        THEN (IF Len(newI.content) > 0 THEN <<newI>> ELSE <<>>)
                        ELSE <<i>>
             IN  Emit(first \o mid \o last, {})
        ELSE Emit(below \o <<[item.folder EXCEPT !.name = NoName]>> \o above, {})

\* dropAboveBelow putting a space dragged out of a folder above the
\* container whatever the instruction
dropAboveBelow_SpaceAbove(i, item, containerItem, instructionType) ==
    LET below == IF instructionType = ReorderBelow THEN <<i>> ELSE <<>>
        above == IF instructionType = ReorderAbove THEN <<i>> ELSE <<>>
    IN  IF item.type = "string"
        THEN Emit(below \o <<item>> \o above, {})
        ELSE IF Truthy(item.spaceId)
        THEN LET newI == [i EXCEPT !.content = Without(i.content, item.spaceId)]
                 mid == IF sameFolders(item, containerItem) /\ i.type = "object"
                        THEN (IF Len(newI.content) > 0 THEN <<newI>> ELSE <<>>)
                        ELSE <<i>>
             IN  Emit(<<Str(item.spaceId)>> \o mid, {})
        ELSE Emit(below \o <<item.folder>> \o above, {})

\* dropAboveBelow leaving a space pulled out of its folder in the folder too
dropAboveBelow_KeepsInFolder(i, item, containerItem, instructionType) ==
    LET below == IF instructionType = ReorderBelow THEN <<i>> ELSE <<>>
        above == IF instructionType = ReorderAbove THEN <<i>> ELSE <<>>
    IN  IF item.type = "string"
        THEN Emit(below \o <<item>> \o above, {})
        ELSE IF Truthy(item.spaceId)
        THEN LET first == IF instructionType = ReorderAbove
                          THEN <<Str(item.spaceId)>> ELSE <<>>
                 last == IF instructionType = ReorderBelow
                         THEN <<Str(item.spaceId)>> ELSE <<>>
             IN  Emit(first \o <<i>> \o last, {})
        ELSE Emit(below \o <<item.folder>> \o above, {})

\* "drop above or below space or closed/opened folder"
dropAboveBelow(i, item, containerItem, instructionType) ==
    LET below == IF instructionType = ReorderBelow THEN <<i>> ELSE <<>>
        above == IF instructionType = ReorderAbove THEN <<i>> ELSE <<>>
    IN  IF item.type = "string"
        THEN Emit(below \o <<item>> \o above, {})
        ELSE IF Truthy(item.spaceId)
        THEN LET first == IF instructionType = ReorderAbove
                          THEN <<Str(item.spaceId)>> ELSE <<>>
                 last == IF instructionType = ReorderBelow
                         THEN <<Str(item.spaceId)>> ELSE <<>>
                 newI == [i EXCEPT !.content = Without(i.content, item.spaceId)]
                 mid == IF sameFolders(item, containerItem) /\ i.type = "object"
                        THEN (IF Len(newI.content) > 0 THEN <<newI>> ELSE <<>>)
                        ELSE <<i>>
             IN  Emit(first \o mid \o last, {})
        ELSE Emit(below \o <<item.folder>> \o above, {})

\* the body of the forEach without the removal of the drag item
reorderItem_NoRemoval(i, item, containerItem, instructionType, newId) ==
    IF matchDest(i, containerItem)
    THEN IF instructionType = MakeChild
         THEN makeChild(item, containerItem, newId)
         ELSE IF containerItem.type = "object" /\ Truthy(containerItem.spaceId)
         THEN dropInsideFolder(item, containerItem, instructionType)
         ELSE dropAboveBelow(i, item, containerItem, instructionType)
    ELSE Emit(<<i>>, {})

\* The body of sidebarItems.forEach((i) => ...)
reorderItem(i, item, containerItem, instructionType, newId) ==
    IF ~sameFolders(item, containerItem) /\ matchDest(i, item)
    THEN removeDraggable(item)
    ELSE IF matchDest(i, containerItem)
    THEN IF instructionType = MakeChild
         THEN makeChild(item, containerItem, newId)
         ELSE IF containerItem.type = "object" /\ Truthy(containerItem.spaceId)
         THEN dropInsideFolder(item, containerItem, instructionType)
         ELSE dropAboveBelow(i, item, containerItem, instructionType)
    ELSE Emit(<<i>>, {})

\* the pass emitting what it emits in the opposite order
reconcile_Reversed(items, item, containerItem, instructionType, newId) ==
    Flatten([k \in DOMAIN items |->
                reorderItem(items[Len(items) + 1 - k], item, containerItem,
                            instructionType, newId).push])

\* newItems after the whole pass
reconcile(items, item, containerItem, instructionType, newId) ==
    Flatten([k \in DOMAIN items |->
                reorderItem(items[k], item, containerItem, instructionType, newId).push])

\* the pass deleting the opened state of the container's folder as well
reconcileDeleted_Container(items, item, containerItem, instructionType, newId) ==
    UNION {reorderItem(items[k], item, containerItem, instructionType, newId).del :
              k \in DOMAIN items}
        \cup (IF containerItem.type = "object" THEN {containerItem.folder.id} ELSE {})

\* folder ids the pass sends to setOpenedFolder({type: 'DELETE'})
reconcileDeleted(items, item, containerItem, instructionType, newId) ==
    UNION {reorderItem(items[k], item, containerItem, instructionType, newId).del :
              k \in DOMAIN items}

---------------------------------------------------------------------------
(* Structure of a sidebar *)

FolderIdsOf(items) == {items[k].id : k \in {j \in DOMAIN items : items[j].type = "object"}}

BareSpacesOf(items) == {items[k].id : k \in {j \in DOMAIN items : items[j].type = "string"}}

SpacesOfItem(i) == IF i.type = "string" THEN {i.id} ELSE Range(i.content)

SpacesOf(items) == UNION {SpacesOfItem(items[k]) : k \in DOMAIN items}

\* how many times space s occurs, top level and all folder contents together
Occurrences(items, s) ==
    LET inItem(i) == IF i.type = "string"
                     THEN (IF i.id = s THEN 1 ELSE 0)
                     ELSE Cardinality({k \in DOMAIN i.content : i.content[k] = s})
        sum[k \in 0..Len(items)] ==
            IF k = 0 THEN 0 ELSE sum[k - 1] + inItem(items[k])
    IN  sum[Len(items)]

FoldersOf(items) == {items[k] : k \in {j \in DOMAIN items : items[j].type = "object"}}

\* each space once, no empty folder, distinct folder ids
WellFormed(items) ==
    /\ \A s \in SpacesOf(items) : Occurrences(items, s) = 1
    /\ \A k \in DOMAIN items : items[k].type = "object" => Len(items[k].content) > 0
    /\ \A j, k \in DOMAIN items :
          (items[j].type = "object" /\ items[k].type = "object" /\ j # k)
              => items[j].id # items[k].id

\* non-empty sequences without repetition over a set
RECURSIVE Arrangements(_)
Arrangements(S) ==
    {<<s>> : s \in S}
        \cup UNION {{<<s>> \o rest : rest \in Arrangements(S \ {s})} : s \in S}

\* the name a folder of an initial sidebar carries
InitialName(id) == IF id = FolderIdPool[2] THEN "work" ELSE NoName

\* every well-formed sidebar over spaces S whose folders carry, in order of
\* appearance, the ids FolderIdPool[n], FolderIdPool[n + 1], ...
RECURSIVE SidebarsOver(_, _)
SidebarsOver(S, n) ==
    {<<>>}
        \cup UNION {{<<Str(s)>> \o rest : rest \in SidebarsOver(S \ {s}, n)} : s \in S}
        \cup UNION {{<<Folder(FolderIdPool[n], InitialName(FolderIdPool[n]), c)>> \o rest :
                        rest \in SidebarsOver(S \ Range(c), n + 1)} :
                    c \in Arrangements(S)}

---------------------------------------------------------------------------
(* Local echo and persistence *)

\* the serialised account-data content
makeCinnySpacesContent(newItems) == [sidebar |-> newItems]

parseSidebar(orphans, content) == content.sidebar

\* the tail of a handler with the write issued before the local echo
commit_WriteFirst(newSpacesContent) ==
    <<[call |-> "setAccountData", content |-> newSpacesContent],
      [call |-> "localEchoSidebarItem",
       items |-> parseSidebar(orphanSpaces, newSpacesContent)]>>

\* the calls that end onReorder and handleUnpin, in statement order
commit(newSpacesContent) ==
    <<[call |-> "localEchoSidebarItem",
       items |-> parseSidebar(orphanSpaces, newSpacesContent)],
      [call |-> "setAccountData", content |-> newSpacesContent]>>

IsWrite(e) == e.call = "setAccountData"
IsEcho(e) == e.call = "localEchoSidebarItem"

\* the call that clears the dragging indicator
clearDragging == [call |-> "onDragging"]

\* the sink once the last handler has made the calls of log
Logged(log) == [sink EXCEPT !.log = log]

\* every draggable shape that refers to an item of the sidebar
DragShapes(items) ==
    {Str(s) : s \in BareSpacesOf(items)}
        \cup {FolderClosed(f) : f \in FoldersOf(items)}
        \cup UNION {{FolderSpace(f, s) : s \in Range(f.content)} : f \in FoldersOf(items)}

ContainerShapes(items) ==
    DragShapes(items) \cup {FolderHeader(f) : f \in FoldersOf(items)}

Instructions == {ReorderAbove, ReorderBelow, MakeChild}

\* the sidebar entity a draggable stands for: a space, or a folder as a whole
EntityOf(d) ==
    IF d.type = "string" THEN <<"space", d.id>>
    ELSE IF Truthy(d.spaceId) THEN <<"space", d.spaceId>>
    ELSE <<"folder", d.folder.id>>

\* randomStr(): a folder id this session has not seen, i.e. one that no
\* folder of the sidebar carries and the opened-folder store does not hold.
\* Ids are opaque, so the first such id of the pool stands for all of them;
\* the set is empty once the pool is used up.
randomStr ==
    LET free == {k \in DOMAIN FolderIdPool :
                    /\ FolderIdPool[k] \in FolderIds
                    /\ FolderIdPool[k] \notin FolderIdsOf(sidebarItems) \cup openedFolder}
    IN  {FolderIdPool[k] : k \in {j \in free : \A i \in free : j <= i}}

\* onReorder: reconcile, delete opened state, local echo, persist
onReorder(item, containerItem, instructionType) ==
    \E newId \in IF instructionType = MakeChild /\ containerItem.type = "string"
                 THEN randomStr ELSE {Undefined} :
        LET newItems == reconcile(sidebarItems, item, containerItem, instructionType, newId)
            deleted == reconcileDeleted(sidebarItems, item, containerItem,
                                        instructionType, newId)
            newSpacesContent == makeCinnySpacesContent(newItems)
        IN  /\ openedFolder' = openedFolder \ deleted
            /\ sidebarItems' = parseSidebar(orphanSpaces, newSpacesContent)
            /\ accountData' = newSpacesContent
            /\ lastReorder' = [called |-> TRUE,
                               item |-> item,
                               containerItem |-> containerItem,
                               instructionType |-> instructionType,
                               currentItems |-> sidebarItems,
                               opened |-> openedFolder,
                               newItems |-> newItems]

---------------------------------------------------------------------------
(* The reconciler on every well-formed input *)

InitReconcile ==
    /\ sidebarItems \in SidebarsOver(Spaces, 1)
    /\ WellFormed(sidebarItems)
    /\ Len(sidebarItems) > 0
    /\ openedFolder \in SUBSET FolderIdsOf(sidebarItems)
    /\ orphanSpaces = {}
    /\ draggingItem = UndefinedItem
    /\ source = NoDrag
    /\ dropTargets = <<>>
    /\ accountData = makeCinnySpacesContent(sidebarItems)
    /\ lastReorder = NoCall
    /\ sink = NoWrites

Reconcile ==
    /\ ~lastReorder.called
    /\ \E item \in DragShapes(sidebarItems),
          containerItem \in ContainerShapes(sidebarItems),
          instructionType \in Instructions :
            /\ item # containerItem
            /\ EntityOf(item) # EntityOf(containerItem)
            /\ onReorder(item, containerItem, instructionType)
    /\ UNCHANGED <<orphanSpaces, draggingItem, source, dropTargets, sink>>

NextReconcile == Reconcile

SpecReconcile == InitReconcile /\ [][NextReconcile]_vars

---------------------------------------------------------------------------
(* Drag sources and drop targets of the rendered sidebar *)

\* A folder whose id the opened-folder store holds is presented by SpaceFolder:
\* its header, with both edges taken as mounted drop targets, and one SpaceTab
\* per space of its content.  Any other folder is presented as a whole, by
\* ClosedSpaceFolder.
IsOpened(folder) == folder.id \in openedFolder

\* the items given to useDraggableItem
DraggableItems ==
    {Str(s) : s \in BareSpacesOf(sidebarItems)}
        \cup UNION {{FolderSpace(f, s) : s \in Range(f.content)} :
                       f \in {g \in FoldersOf(sidebarItems) : IsOpened(g)}}
        \cup {FolderClosed(f) : f \in {g \in FoldersOf(sidebarItems) : ~IsOpened(g)}}

\* the items given to useDropTarget: SpaceTab and ClosedSpaceFolder
TreeDropTargets == DraggableItems

\* the items given to useDropTargetInstruction: the header of a SpaceFolder
HeaderDropTargets ==
    {FolderHeader(f) : f \in {g \in FoldersOf(sidebarItems) : IsOpened(g)}}

\* canDrop accepting every drag
canDrop_Always(dragItem, item) == TRUE

canDrop(dragItem, item) == dragItem # item

\* what attachInstruction / extractInstruction give for the instruction the
\* pointer position asks for, given the blocked instruction types
extractInstruction(desired, block) ==
    IF desired = Null THEN Null
    ELSE IF desired \in block THEN InstructionBlocked
    ELSE desired

\* getData blocking 'reparent' only
getData_NoBlock(item, desired) ==
    LET block == {"reparent"}
        instruction == extractInstruction(desired, block)
    IN  [item |-> item,
         instructionType |-> IF instruction # Null THEN instruction ELSE Undefined]

\* getData of useDropTarget
getData(item, desired) ==
    LET block == {"reparent"} \cup
                 (IF item.type = "object" /\ Truthy(item.spaceId)
                  THEN {MakeChild} ELSE {})
        instruction == extractInstruction(desired, block)
    IN  [item |-> item,
         instructionType |-> IF instruction # Null THEN instruction ELSE Undefined]

\* getData of useDropTargetInstruction
getDataInstruction(item, instructionType) ==
    [item |-> item, instructionType |-> instructionType]

DesiredInstructions == {ReorderAbove, ReorderBelow, MakeChild, Null}

---------------------------------------------------------------------------
(* Unpin *)

sidebarItemWithout(items, roomId) ==
    LET kept(i) ==
            IF i.type = "string"
            THEN (IF i.id = roomId THEN <<>> ELSE <<i>>)
            ELSE IF Includes(i.content, roomId)
            THEN LET newContent == Without(i.content, roomId)
                 IN  IF Len(newContent) = 0 THEN <<>>
                     ELSE <<[i EXCEPT !.content = newContent]>>
            ELSE <<i>>
    IN  Flatten([k \in DOMAIN items |-> kept(items[k])])

\* the spaces whose tab is rendered and offers the unpin action
UnpinOffered ==
    {s \in BareSpacesOf(sidebarItems) : s \notin orphanSpaces}
        \cup UNION {{s \in Range(f.content) : s \notin orphanSpaces} :
                       f \in {g \in FoldersOf(sidebarItems) : IsOpened(g)}}

---------------------------------------------------------------------------
(* One client session *)

Init ==
    /\ sidebarItems \in SidebarsOver(Spaces, 1)
    /\ WellFormed(sidebarItems)
    /\ SpacesOf(sidebarItems) = Spaces
    /\ orphanSpaces = {SpaceIds[1]}
    /\ openedFolder \in SUBSET FolderIdsOf(sidebarItems)
    /\ draggingItem = UndefinedItem
    /\ source = NoDrag
    /\ dropTargets = <<>>
    /\ accountData = makeCinnySpacesContent(sidebarItems)
    /\ lastReorder = NoCall
    /\ sink = NoWrites

\* draggable: getInitialData and onDragStart
DragStart ==
    /\ source = NoDrag
    /\ \E item \in DraggableItems :
          /\ source' = item
          /\ draggingItem' = item
    /\ dropTargets' = <<>>
    /\ lastReorder' = NoCall
    /\ sink' = Logged(<<>>)
    /\ UNCHANGED <<sidebarItems, openedFolder, orphanSpaces, accountData>>

\* the pointer is over a SpaceTab or a ClosedSpaceFolder
DragOverTree ==
    /\ source # NoDrag
    /\ \E item \in TreeDropTargets, desired \in DesiredInstructions :
          /\ canDrop(source, item)
          /\ dropTargets' = <<getData(item, desired)>>
    /\ UNCHANGED <<sidebarItems, openedFolder, orphanSpaces, draggingItem, source,
                   accountData, lastReorder, sink>>

\* the pointer is over the upper or lower edge of a SpaceFolder header
DragOverHeader ==
    /\ source # NoDrag
    /\ \E item \in HeaderDropTargets, instructionType \in {ReorderAbove, ReorderBelow} :
          /\ canDrop(source, item)
          /\ dropTargets' = <<getDataInstruction(item, instructionType)>>
    /\ UNCHANGED <<sidebarItems, openedFolder, orphanSpaces, draggingItem, source,
                   accountData, lastReorder, sink>>

DragLeave ==
    /\ source # NoDrag
    /\ dropTargets # <<>>
    /\ dropTargets' = <<>>
    /\ UNCHANGED <<sidebarItems, openedFolder, orphanSpaces, draggingItem, source,
                   accountData, lastReorder, sink>>

\* monitorForElements onDrop, on a drop target that recorded an instruction
DropReorder ==
    /\ source # NoDrag
    /\ Len(dropTargets) # 0
    /\ dropTargets[1].instructionType # Undefined
    /\ draggingItem' = UndefinedItem
    /\ onReorder(source, dropTargets[1].item, dropTargets[1].instructionType)
    /\ sink' = Logged(<<clearDragging>> \o commit(accountData'))
    /\ source' = NoDrag
    /\ dropTargets' = <<>>
    /\ UNCHANGED orphanSpaces

\* a drop without effect that returns before the indicator is cleared
DropNothing_KeepsIndicator ==
    /\ source # NoDrag
    /\ IF Len(dropTargets) = 0 THEN TRUE
       ELSE dropTargets[1].instructionType = Undefined
    /\ source' = NoDrag
    /\ dropTargets' = <<>>
    /\ sink' = Logged(<<>>)
    /\ UNCHANGED <<sidebarItems, openedFolder, orphanSpaces, draggingItem, accountData,
                   lastReorder>>

\* a drop without effect that persists the sidebar as it is
DropNothing_Persists ==
    /\ source # NoDrag
    /\ IF Len(dropTargets) = 0 THEN TRUE
       ELSE dropTargets[1].instructionType = Undefined
    /\ draggingItem' = UndefinedItem
    /\ accountData' = makeCinnySpacesContent(sidebarItems)
    /\ sink' = Logged(<<clearDragging,
                        [call |-> "setAccountData", content |-> accountData']>>)
    /\ source' = NoDrag
    /\ dropTargets' = <<>>
    /\ UNCHANGED <<sidebarItems, openedFolder, orphanSpaces, lastReorder>>

\* monitorForElements onDrop, outside every drop target or without instruction
DropNothing ==
    /\ source # NoDrag
    /\ IF Len(dropTargets) = 0 THEN TRUE
       ELSE dropTargets[1].instructionType = Undefined
    /\ draggingItem' = UndefinedItem
    /\ sink' = Logged(<<clearDragging>>)
    /\ source' = NoDrag
    /\ dropTargets' = <<>>
    /\ UNCHANGED <<sidebarItems, openedFolder, orphanSpaces, accountData, lastReorder>>

handleFolderToggle ==
    /\ source = NoDrag
    /\ \E targetFolderId \in FolderIdsOf(sidebarItems) :
          openedFolder' = IF targetFolderId \in openedFolder
                          THEN openedFolder \ {targetFolderId}
                          ELSE openedFolder \cup {targetFolderId}
    /\ lastReorder' = NoCall
    /\ sink' = Logged(<<>>)
    /\ UNCHANGED <<sidebarItems, orphanSpaces, draggingItem, source, dropTargets,
                   accountData>>

\* no space counts as an orphan space
isOrphan_Never(roomId) == FALSE

\* orphanSpaces.includes(roomId)
isOrphan(roomId) == roomId \in orphanSpaces

\* unpin persisting the new content without the local echo
unpin_NoEcho(roomId) ==
    /\ ~isOrphan(roomId)
    /\ LET newItems == sidebarItemWithout(sidebarItems, roomId)
           newSpacesContent == makeCinnySpacesContent(newItems)
       IN  /\ sidebarItems' = sidebarItems
           /\ accountData' = newSpacesContent

\* the body of handleUnpin(roomId)
unpin(roomId) ==
    /\ ~isOrphan(roomId)
    /\ LET newItems == sidebarItemWithout(sidebarItems, roomId)
           newSpacesContent == makeCinnySpacesContent(newItems)
       IN  /\ sidebarItems' = parseSidebar(orphanSpaces, newSpacesContent)
           /\ accountData' = newSpacesContent

handleUnpin ==
    /\ source = NoDrag
    /\ \E roomId \in UnpinOffered : unpin(roomId)
    /\ sink' = Logged(commit(accountData'))
    /\ lastReorder' = NoCall
    /\ UNCHANGED <<openedFolder, orphanSpaces, draggingItem, source, dropTargets>>

Next ==
    \/ DragStart
    \/ DragOverTree
    \/ DragOverHeader
    \/ DragLeave
    \/ DropReorder
    \/ DropNothing
    \/ handleFolderToggle
    \/ handleUnpin

Spec == Init /\ [][Next]_vars

---------------------------------------------------------------------------
(* The persistence write: issued by a handler, settled by the network *)

MaxCommits == 2

\* the sink after a handler made the calls of log, the sidebar having been
\* `before` when the handler began; every write is in flight until settled
Issued(log, before) ==
    LET writes == SelectSeq(log, IsWrite)
    IN  [log |-> log,
         inFlight |-> sink.inFlight \o
                      [k \in DOMAIN writes |->
                          [content |-> writes[k].content, before |-> before]],
         commits |-> sink.commits + 1,
         issued |-> sink.issued + Len(writes),
         settled |-> "none",
         request |-> Undefined,
         external |-> sink.external]

RemoveAt(seq, k) == SubSeq(seq, 1, k - 1) \o SubSeq(seq, k + 1, Len(seq))

\* a rejection restoring the sidebar the handler began with
afterRejected_RollsBack(items, write) == write.before

\* the in-memory sidebar after the promise of a write is rejected: the
\* promise is neither awaited nor caught, so nothing is done
afterRejected(items, write) == items

\* the writes issued when the promise of a write is rejected: none
retryOf(write) == <<>>

\* the session starts from a sidebar of two items, its folders opened
InitPersist ==
    /\ sidebarItems \in SidebarsOver(Spaces, 1)
    /\ WellFormed(sidebarItems)
    /\ SpacesOf(sidebarItems) = Spaces
    /\ Len(sidebarItems) = 2
    /\ openedFolder = FolderIdsOf(sidebarItems)
    /\ orphanSpaces = {SpaceIds[1]}
    /\ draggingItem = UndefinedItem
    /\ source = NoDrag
    /\ dropTargets = <<>>
    /\ accountData = makeCinnySpacesContent(sidebarItems)
    /\ lastReorder = NoCall
    /\ sink = NoWrites

\* a drop on a drop target that recorded an instruction
DropCommit ==
    /\ sink.commits < MaxCommits
    /\ \E item \in DragShapes(sidebarItems),
          containerItem \in ContainerShapes(sidebarItems),
          instructionType \in Instructions :
            /\ item # containerItem
            /\ EntityOf(item) # EntityOf(containerItem)
            /\ ~(/\ sameFolders(item, containerItem)
                 /\ ~Truthy(item.spaceId) \/ instructionType = MakeChild)
            /\ onReorder(item, containerItem, instructionType)
    /\ sink' = Issued(commit(accountData'), sidebarItems)
    /\ UNCHANGED <<orphanSpaces, draggingItem, source, dropTargets>>

\* handleUnpin, requested for a space of the sidebar
UnpinCommit ==
    /\ \E roomId \in SpacesOf(sidebarItems) :
          IF isOrphan(roomId)
          THEN /\ sink' = [sink EXCEPT !.log = <<>>, !.settled = "none",
                                       !.request = roomId]
               /\ UNCHANGED <<sidebarItems, accountData>>
          ELSE /\ sink.commits < MaxCommits
               /\ unpin(roomId)
               /\ sink' = [Issued(commit(accountData'), sidebarItems)
                              EXCEPT !.request = roomId]
    /\ lastReorder' = NoCall
    /\ UNCHANGED <<openedFolder, orphanSpaces, draggingItem, source, dropTargets>>

\* the homeserver accepted a write
setAccountDataResolved ==
    /\ \E k \in DOMAIN sink.inFlight :
          sink' = [sink EXCEPT !.log = <<>>,
                               !.inFlight = RemoveAt(sink.inFlight, k),
                               !.settled = "resolved",
                               !.request = Undefined]
    /\ UNCHANGED <<sidebarItems, openedFolder, orphanSpaces, draggingItem, source,
                   dropTargets, accountData, lastReorder>>

\* a write failed
setAccountDataRejected ==
    /\ \E k \in DOMAIN sink.inFlight :
          LET write == sink.inFlight[k]
              again == retryOf(write)
          IN  /\ sidebarItems' = afterRejected(sidebarItems, write)
              /\ sink' = [sink EXCEPT !.log = <<>>,
                                      !.inFlight = RemoveAt(sink.inFlight, k) \o again,
                                      !.issued = sink.issued + Len(again),
                                      !.settled = "rejected",
                                      !.request = Undefined]
    /\ UNCHANGED <<openedFolder, orphanSpaces, draggingItem, source, dropTargets,
                   accountData, lastReorder>>

NextPersist ==
    \/ DropCommit
    \/ UnpinCommit
    \/ setAccountDataResolved
    \/ setAccountDataRejected

SpecPersist == InitPersist /\ [][NextPersist]_vars

---------------------------------------------------------------------------
(* Vocabulary of the claims about one reconciliation *)

Called == lastReorder.called

IsBare(d) == d.type = "string"
IsFolderSpace(d) == d.type = "object" /\ Truthy(d.spaceId)
IsWholeFolder(d) == d.type = "object" /\ ~Truthy(d.spaceId)
IsReorder(ins) == ins \in {ReorderAbove, ReorderBelow}

\* drag item and container refer to one folder, and the drag item is that
\* folder as a whole or the instruction is make-child
SameFolderMerge(item, containerItem, ins) ==
    sameFolders(item, containerItem) /\ (IsWholeFolder(item) \/ ins = MakeChild)

ExactlyOnce(before, after) ==
    \A s \in SpacesOf(before) : Occurrences(after, s) = 1

NoEmptyFolder(items) == \A f \in FoldersOf(items) : Len(f.content) > 0

\* C1 as stated: for every well-formed currentItems, every distinct pair of
\* dragItem and containerItem present in it and each of the three
\* instructions, each space id of currentItems occurs exactly once in newItems.
C1_EverySpaceOnce_AllPairs ==
    Called => ExactlyOnce(lastReorder.currentItems, lastReorder.newItems)

\* C1 amended: the same, for every pair except those that refer to one and
\* the same folder with the drag item being that whole folder or the
\* instruction being make-child.
C1_EverySpaceOnce ==
    (Called /\ ~SameFolderMerge(lastReorder.item, lastReorder.containerItem,
                                lastReorder.instructionType))
        => ExactlyOnce(lastReorder.currentItems, lastReorder.newItems)

\* a space reordered inside its own folder, and the pass changed the sidebar
C1_Witness ==
    /\ Called
    /\ sameFolders(lastReorder.item, lastReorder.containerItem)
    /\ IsFolderSpace(lastReorder.item)
    /\ IsFolderSpace(lastReorder.containerItem)
    /\ IsReorder(lastReorder.instructionType)
    /\ lastReorder.newItems # lastReorder.currentItems
    /\ ExactlyOnce(lastReorder.currentItems, lastReorder.newItems)

\* C3 as stated: for every distinct pair and each of the three instructions
\* no folder of newItems has an empty content.
C3_NoEmptyFolder_AllPairs ==
    Called => NoEmptyFolder(lastReorder.newItems)

\* C3 amended: no folder of newItems has an empty content, unless the drag
\* item is a whole folder dropped with a reorder instruction on one of its
\* own spaces; a folder whose last space is dragged out is absent, unless it
\* is dropped with make-child on that same folder.
C3_NoEmptyFolder ==
    (Called /\ ~(/\ sameFolders(lastReorder.item, lastReorder.containerItem)
                 /\ IsWholeFolder(lastReorder.item)
                 /\ IsFolderSpace(lastReorder.containerItem)
                 /\ IsReorder(lastReorder.instructionType)))
        => /\ NoEmptyFolder(lastReorder.newItems)
           /\ (IsFolderSpace(lastReorder.item)
                 /\ lastReorder.item.folder.content = <<lastReorder.item.spaceId>>
                 /\ ~SameFolderMerge(lastReorder.item, lastReorder.containerItem,
                                     lastReorder.instructionType))
               => lastReorder.item.folder.id \notin FolderIdsOf(lastReorder.newItems)

\* the last space of a folder was dragged out and the folder is gone
C3_Witness ==
    /\ Called
    /\ IsFolderSpace(lastReorder.item)
    /\ lastReorder.item.folder.content = <<lastReorder.item.spaceId>>
    /\ lastReorder.item.folder.id \in FolderIdsOf(lastReorder.currentItems)
    /\ lastReorder.item.folder.id \notin FolderIdsOf(lastReorder.newItems)
    /\ Len(lastReorder.newItems) > 0

\* C4 as stated: under reorder-above and reorder-below, for all distinct
\* drag item and container shapes, newItems holds the same set of space ids
\* as currentItems.
C4_ReorderKeepsSet_AllPairs ==
    (Called /\ IsReorder(lastReorder.instructionType))
        => SpacesOf(lastReorder.newItems) = SpacesOf(lastReorder.currentItems)

\* C4 amended: the same, unless the drag item is a whole folder dropped on
\* one of its own spaces.
C4_ReorderKeepsSet ==
    (Called /\ IsReorder(lastReorder.instructionType)
            /\ ~(/\ sameFolders(lastReorder.item, lastReorder.containerItem)
                 /\ IsWholeFolder(lastReorder.item)
                 /\ IsFolderSpace(lastReorder.containerItem)))
        => SpacesOf(lastReorder.newItems) = SpacesOf(lastReorder.currentItems)

\* a whole folder spliced into another folder next to one of its spaces
C4_Witness ==
    /\ Called
    /\ IsReorder(lastReorder.instructionType)
    /\ IsWholeFolder(lastReorder.item)
    /\ IsFolderSpace(lastReorder.containerItem)
    /\ ~sameFolders(lastReorder.item, lastReorder.containerItem)
    /\ Len(lastReorder.item.folder.content) > 1
    /\ SpacesOf(lastReorder.newItems) = SpacesOf(lastReorder.currentItems)

\* C5: bare space A dropped with make-child on another bare space B: neither
\* is a bare top-level item of newItems, both are in the content of one and
\* the same folder, the only one holding either, whose id no folder of
\* currentItems carries, and there is exactly one folder more than before.
C5_MakeChildOnBareSpace ==
    (Called /\ lastReorder.instructionType = MakeChild
            /\ IsBare(lastReorder.item) /\ IsBare(lastReorder.containerItem))
        => LET a == lastReorder.item.id
               b == lastReorder.containerItem.id
               holders == {f \in FoldersOf(lastReorder.newItems) :
                              Includes(f.content, a) \/ Includes(f.content, b)}
           IN  /\ a \notin BareSpacesOf(lastReorder.newItems)
               /\ b \notin BareSpacesOf(lastReorder.newItems)
               /\ Cardinality(holders) = 1
               /\ \A f \in holders :
                     /\ Includes(f.content, a) /\ Includes(f.content, b)
                     /\ f.id \notin FolderIdsOf(lastReorder.currentItems)
               /\ Cardinality(FolderIdsOf(lastReorder.newItems))
                     = Cardinality(FolderIdsOf(lastReorder.currentItems)) + 1
               /\ Cardinality({k \in DOMAIN lastReorder.newItems :
                                  lastReorder.newItems[k].type = "object"})
                     = Cardinality({k \in DOMAIN lastReorder.currentItems :
                                       lastReorder.currentItems[k].type = "object"}) + 1

\* a bare space made a child of another bare space next to an older folder
C5_Witness ==
    /\ Called
    /\ lastReorder.instructionType = MakeChild
    /\ IsBare(lastReorder.item) /\ IsBare(lastReorder.containerItem)
    /\ FolderIdsOf(lastReorder.currentItems) # {}
    /\ Cardinality(FolderIdsOf(lastReorder.newItems)) = 2

NewFolderIds == FolderIdsOf(lastReorder.newItems) \ FolderIdsOf(lastReorder.currentItems)

\* C7 as stated: a reorder introduces no folder id, and a folder id that was
\* not in the input is introduced only by make-child with a bare space as
\* drag item and a bare space as container.
C7_FreshIdOnlyForTwoBareSpaces ==
    Called =>
        /\ IsReorder(lastReorder.instructionType) => NewFolderIds = {}
        /\ NewFolderIds # {} =>
              /\ lastReorder.instructionType = MakeChild
              /\ IsBare(lastReorder.item)
              /\ IsBare(lastReorder.containerItem)

\* C7 amended: a reorder introduces no folder id, and a folder id that was
\* not in the input is introduced only by make-child on a bare space as
\* container, whatever the drag item (bare space, space of a folder, folder).
C7_FreshIdOnlyForBareContainer ==
    Called =>
        /\ IsReorder(lastReorder.instructionType) => NewFolderIds = {}
        /\ NewFolderIds # {} =>
              /\ lastReorder.instructionType = MakeChild
              /\ IsBare(lastReorder.containerItem)
              /\ Cardinality(NewFolderIds) = 1

\* a space of a folder made a child of a bare space: a folder id is minted
C7_Witness ==
    /\ Called
    /\ lastReorder.instructionType = MakeChild
    /\ IsFolderSpace(lastReorder.item)
    /\ IsBare(lastReorder.containerItem)
    /\ NewFolderIds # {}

\* position of the top-level item a bare space or a folder draggable matches
TopIndexOf(items, d) == CHOOSE k \in DOMAIN items : matchDest(items[k], d)

IndexIn(seq, x) == CHOOSE k \in DOMAIN seq : seq[k] = x

\* the drop puts the drag item where it already is, at top level
NoOpAtTopLevel(items, item, containerItem, ins) ==
    /\ IsBare(item) \/ IsWholeFolder(item)
    /\ IsBare(containerItem) \/ IsWholeFolder(containerItem)
    /\ \/ ins = ReorderBelow
          /\ TopIndexOf(items, containerItem) = TopIndexOf(items, item) - 1
       \/ ins = ReorderAbove
          /\ TopIndexOf(items, containerItem) = TopIndexOf(items, item) + 1

\* the drop puts a space of a folder where it already is in that folder
NoOpInsideFolder(item, containerItem, ins) ==
    /\ IsFolderSpace(item) /\ IsFolderSpace(containerItem)
    /\ sameFolders(item, containerItem)
    /\ LET c == item.folder.content
       IN  \/ ins = ReorderBelow
              /\ IndexIn(c, containerItem.spaceId) = IndexIn(c, item.spaceId) - 1
           \/ ins = ReorderAbove
              /\ IndexIn(c, containerItem.spaceId) = IndexIn(c, item.spaceId) + 1

\* C8: a drop of an item with reorder-below on the item just before it, or
\* with reorder-above on the item just after it (bare spaces and whole
\* folders at top level, two spaces of one folder inside it), yields newItems
\* equal to currentItems, folder ids, names and contents included.
C8_NoOpDropReturnsInput ==
    (Called /\ (\/ NoOpAtTopLevel(lastReorder.currentItems, lastReorder.item,
                                  lastReorder.containerItem, lastReorder.instructionType)
                \/ NoOpInsideFolder(lastReorder.item, lastReorder.containerItem,
                                    lastReorder.instructionType)))
        => lastReorder.newItems = lastReorder.currentItems

\* a named folder dropped below the folder just before it
C8_Witness ==
    /\ Called
    /\ NoOpAtTopLevel(lastReorder.currentItems, lastReorder.item,
                      lastReorder.containerItem, lastReorder.instructionType)
    /\ IsWholeFolder(lastReorder.item)
    /\ IsWholeFolder(lastReorder.containerItem)
    /\ lastReorder.item.folder.name # NoName
    /\ Len(lastReorder.item.folder.content) > 1
    /\ lastReorder.newItems = lastReorder.currentItems

\* the space ids a drag item brings along, in order
DragContent(items, item) ==
    IF IsBare(item) THEN <<item.id>>
    ELSE IF IsFolderSpace(item) THEN <<item.spaceId>>
    ELSE items[TopIndexOf(items, item)].content

\* what is left of top-level item i once the drag item is taken out of it
WithoutDrag(i, item) ==
    IF ~matchDest(i, item) THEN <<i>>
    ELSE IF IsFolderSpace(item)
    THEN LET c == Without(i.content, item.spaceId)
         IN  IF Len(c) = 0 THEN <<>> ELSE <<[i EXCEPT !.content = c]>>
    ELSE <<>>

\* items with the top-level item of the container replaced by the sequence
\* `by`, the drag item taken out of every other place, the rest as it was
Replaced(items, item, containerItem, by) ==
    Flatten([k \in DOMAIN items |->
                IF matchDest(items[k], containerItem) THEN by
                ELSE WithoutDrag(items[k], item)])

\* C17: make-child on a bare top-level space puts one new folder where the
\* container space was, its content the container space id followed by the
\* drag content (one space id, or all ids of a dragged folder in their
\* order); the other top-level items keep their order and the drag item is
\* gone from where it was.
C17_MakeChildOnSpaceInPlace ==
    (Called /\ lastReorder.instructionType = MakeChild
            /\ IsBare(lastReorder.containerItem))
        => LET items == lastReorder.currentItems
               item == lastReorder.item
               content == <<lastReorder.containerItem.id>> \o DragContent(items, item)
           IN  \E id \in FolderIds \ FolderIdsOf(items) :
                  lastReorder.newItems =
                      Replaced(items, item, lastReorder.containerItem,
                               <<Folder(id, NoName, content)>>)

\* a folder of two spaces made a child of a bare space that came after it
C17_Witness ==
    /\ Called
    /\ lastReorder.instructionType = MakeChild
    /\ IsBare(lastReorder.containerItem)
    /\ IsWholeFolder(lastReorder.item)
    /\ Len(lastReorder.item.folder.content) = 2
    /\ TopIndexOf(lastReorder.currentItems, lastReorder.item)
          < TopIndexOf(lastReorder.currentItems, lastReorder.containerItem)
    /\ Len(lastReorder.newItems[1].content) = 3

\* C18: make-child on an existing folder, the drag item not being of that
\* folder, keeps the folder where it is with its id and name, its content
\* the old content in the same order followed by the drag content.
C18_MakeChildOnFolderAppends ==
    (Called /\ lastReorder.instructionType = MakeChild
            /\ IsWholeFolder(lastReorder.containerItem)
            /\ ~sameFolders(lastReorder.item, lastReorder.containerItem))
        => LET items == lastReorder.currentItems
               item == lastReorder.item
               f == items[TopIndexOf(items, lastReorder.containerItem)]
           IN  lastReorder.newItems =
                   Replaced(items, item, lastReorder.containerItem,
                            <<Folder(f.id, f.name,
                                     f.content \o DragContent(items, item))>>)

\* a folder of two spaces made a child of the named folder
C18_Witness ==
    /\ Called
    /\ lastReorder.instructionType = MakeChild
    /\ IsWholeFolder(lastReorder.containerItem)
    /\ lastReorder.containerItem.folder.name # NoName
    /\ IsWholeFolder(lastReorder.item)
    /\ Len(lastReorder.item.folder.content) = 2
    /\ \E f \in FoldersOf(lastReorder.newItems) :
          /\ f.name # NoName
          /\ Len(f.content) = 3

\* the drag content is one run of c next to s: right before it for
\* reorder-above, right after it for reorder-below
RunNextTo(c, child, s, ins) ==
    /\ Includes(c, s)
    /\ LET p == IndexIn(c, s)
           n == Len(child)
       IN  IF ins = ReorderAbove
           THEN p > n /\ SubSeq(c, p - n, p - 1) = child
           ELSE p + n <= Len(c) /\ SubSeq(c, p + 1, p + n) = child

\* C19: reorder-above or reorder-below on a space S inside folder F, the drag
\* item a bare space, a space of another folder, a space of F or a whole
\* other folder: the content of F holds the drag content as one run right
\* before or right after S, every other id of F keeps its relative order, no
\* dragged id occurs twice, and F keeps its id and its top-level place.
C19_SpliceNextToSpace ==
    (Called /\ IsReorder(lastReorder.instructionType)
            /\ IsFolderSpace(lastReorder.containerItem)
            /\ ~(IsWholeFolder(lastReorder.item)
                  /\ sameFolders(lastReorder.item, lastReorder.containerItem)))
        => LET items == lastReorder.currentItems
               item == lastReorder.item
               s == lastReorder.containerItem.spaceId
               f == items[TopIndexOf(items, lastReorder.containerItem)]
               child == DragContent(items, item)
               others(c) == SelectSeq(c, LAMBDA x : ~Includes(child, x))
           IN  \E k \in DOMAIN lastReorder.newItems :
                  LET g == lastReorder.newItems[k]
                  IN  /\ g.type = "object"
                      /\ g.id = f.id
                      /\ g.name = f.name
                      /\ RunNextTo(g.content, child, s, lastReorder.instructionType)
                      /\ others(g.content) = others(f.content)
                      /\ Len(g.content) = Len(others(f.content)) + Len(child)
                      /\ lastReorder.newItems =
                            Replaced(items, item, lastReorder.containerItem, <<g>>)

\* a whole folder of two spaces spliced below the first space of a folder
C19_Witness ==
    /\ Called
    /\ lastReorder.instructionType = ReorderBelow
    /\ IsFolderSpace(lastReorder.containerItem)
    /\ IsWholeFolder(lastReorder.item)
    /\ ~sameFolders(lastReorder.item, lastReorder.containerItem)
    /\ Len(lastReorder.item.folder.content) = 2
    /\ Len(lastReorder.newItems) = 1
    /\ lastReorder.newItems[1].content
          = <<lastReorder.containerItem.spaceId>> \o lastReorder.item.folder.content

\* C20: reorder-above or reorder-below at top level, the drag item a bare
\* space or a whole folder and the container a bare space or a folder: the
\* output is a permutation of the input of the same length, the drag item (a
\* folder with its id, name and content) right before or right after the
\* container, all other items in their relative order.
C20_TopLevelReorderPermutes ==
    (Called /\ IsReorder(lastReorder.instructionType)
            /\ (IsBare(lastReorder.item) \/ IsWholeFolder(lastReorder.item))
            /\ (IsBare(lastReorder.containerItem)
                   \/ IsWholeFolder(lastReorder.containerItem)))
        => LET items == lastReorder.currentItems
               d == items[TopIndexOf(items, lastReorder.item)]
               c == items[TopIndexOf(items, lastReorder.containerItem)]
               pair == IF lastReorder.instructionType = ReorderAbove
                       THEN <<d, c>> ELSE <<c, d>>
           IN  /\ Len(lastReorder.newItems) = Len(items)
               /\ Range(lastReorder.newItems) = Range(items)
               /\ lastReorder.newItems =
                     Replaced(items, lastReorder.item, lastReorder.containerItem, pair)

\* the named folder moved from the end to above the first item
C20_Witness ==
    /\ Called
    /\ lastReorder.instructionType = ReorderAbove
    /\ IsWholeFolder(lastReorder.item)
    /\ lastReorder.item.folder.name # NoName
    /\ Len(lastReorder.currentItems) = 3
    /\ TopIndexOf(lastReorder.currentItems, lastReorder.item) = 3
    /\ TopIndexOf(lastReorder.currentItems, lastReorder.containerItem) = 1
    /\ lastReorder.newItems[1] = lastReorder.currentItems[3]
    /\ lastReorder.newItems[2] = lastReorder.currentItems[1]

\* C21: a space C dragged out of a folder F of at least two spaces and
\* dropped reorder-above or reorder-below a bare top-level space X: C is a
\* bare top-level item right before or right after X, F is in its place with
\* its id and its old content minus C in the same order, every other item is
\* as it was.
C21_SpaceOutOfFolderNextToSpace ==
    (Called /\ IsReorder(lastReorder.instructionType)
            /\ IsFolderSpace(lastReorder.item)
            /\ Len(lastReorder.item.folder.content) >= 2
            /\ IsBare(lastReorder.containerItem))
        => LET items == lastReorder.currentItems
               c == Str(lastReorder.item.spaceId)
               x == lastReorder.containerItem
               f == items[TopIndexOf(items, lastReorder.item)]
               pair == IF lastReorder.instructionType = ReorderAbove
                       THEN <<c, x>> ELSE <<x, c>>
           IN  /\ lastReorder.newItems = Replaced(items, lastReorder.item, x, pair)
               /\ Len(lastReorder.newItems) = Len(items) + 1
               /\ \E k \in DOMAIN lastReorder.newItems :
                     lastReorder.newItems[k] =
                         Folder(f.id, f.name, Without(f.content, c.id))

\* the first space of a folder dropped below a bare space before the folder
C21_Witness ==
    /\ Called
    /\ lastReorder.instructionType = ReorderBelow
    /\ IsFolderSpace(lastReorder.item)
    /\ lastReorder.item.folder.content[1] = lastReorder.item.spaceId
    /\ Len(lastReorder.item.folder.content) = 2
    /\ IsBare(lastReorder.containerItem)
    /\ Len(lastReorder.newItems) = 3
    /\ lastReorder.newItems[1] = lastReorder.containerItem
    /\ lastReorder.newItems[2] = Str(lastReorder.item.spaceId)
    /\ lastReorder.newItems[3].type = "object"

\* C22: a space C of folder F dropped reorder-above or reorder-below on F
\* itself: C is a bare top-level item right before or right after F, the
\* content of F is its old content minus C, and F is left out of the output
\* when C was its only space.
C22_SpaceOutOfOwnFolder ==
    (Called /\ IsReorder(lastReorder.instructionType)
            /\ IsFolderSpace(lastReorder.item)
            /\ IsWholeFolder(lastReorder.containerItem)
            /\ sameFolders(lastReorder.item, lastReorder.containerItem))
        => LET items == lastReorder.currentItems
               c == Str(lastReorder.item.spaceId)
               f == items[TopIndexOf(items, lastReorder.containerItem)]
               rest == Without(f.content, c.id)
               left == IF Len(rest) = 0 THEN <<>> ELSE <<Folder(f.id, f.name, rest)>>
               by == IF lastReorder.instructionType = ReorderAbove
                     THEN <<c>> \o left ELSE left \o <<c>>
           IN  /\ lastReorder.newItems
                     = Replaced(items, lastReorder.item, lastReorder.containerItem, by)
               /\ Len(rest) = 0 => f.id \notin FolderIdsOf(lastReorder.newItems)
               /\ Occurrences(lastReorder.newItems, c.id) = 1

\* the only space of a folder dropped above the header of that folder
C22_Witness ==
    /\ Called
    /\ lastReorder.instructionType = ReorderAbove
    /\ IsFolderSpace(lastReorder.item)
    /\ IsWholeFolder(lastReorder.containerItem)
    /\ lastReorder.containerItem.open
    /\ sameFolders(lastReorder.item, lastReorder.containerItem)
    /\ Len(lastReorder.item.folder.content) = 1
    /\ Len(lastReorder.currentItems) = 2
    /\ lastReorder.item.folder.id \notin FolderIdsOf(lastReorder.newItems)
    /\ Str(lastReorder.item.spaceId) \in Range(lastReorder.newItems)

\* i is neither where the drag item comes from nor where the container is
Unmatched(i, item, containerItem) ==
    ~matchDest(i, item) /\ ~matchDest(i, containerItem)

\* C23: every top-level item that is neither the origin of the drag item
\* (the dragged bare space, or the folder the drag item refers to) nor the
\* place of the container is in the output as it is in the input, id, name
\* and content of a folder included, and these items keep their order.
C23_UnmatchedPassThrough ==
    Called =>
        LET items == lastReorder.currentItems
            through == SelectSeq(items,
                           LAMBDA i : Unmatched(i, lastReorder.item,
                                                lastReorder.containerItem))
        IN  SelectSeq(lastReorder.newItems, LAMBDA i : i \in Range(through)) = through

\* a named folder of two spaces stayed as it was while a space before it
\* went below the space after it
C23_Witness ==
    /\ Called
    /\ lastReorder.instructionType = ReorderBelow
    /\ IsBare(lastReorder.item) /\ IsBare(lastReorder.containerItem)
    /\ Len(lastReorder.currentItems) = 3
    /\ lastReorder.currentItems[1] = lastReorder.item
    /\ lastReorder.currentItems[3] = lastReorder.containerItem
    /\ lastReorder.currentItems[2].type = "object"
    /\ lastReorder.newItems[1] = lastReorder.currentItems[2]
    /\ lastReorder.newItems # lastReorder.currentItems

\* C27: the only change a drop makes to the opened-folder store is the
\* deletion of the id of a folder that is absent from the output; a folder
\* that is in the output is opened after the drop iff it was before.
C27_DropOnlyClosesAbsentFolders ==
    Called =>
        /\ openedFolder \subseteq lastReorder.opened
        /\ \A id \in lastReorder.opened \ openedFolder :
              id \notin FolderIdsOf(lastReorder.newItems)
        /\ \A id \in FolderIdsOf(lastReorder.newItems) :
              (id \in openedFolder) <=> (id \in lastReorder.opened)

\* a space of an opened folder was made a child of another opened folder:
\* both ids stay in the store
C27_Witness ==
    /\ Called
    /\ lastReorder.instructionType = MakeChild
    /\ IsFolderSpace(lastReorder.item)
    /\ IsWholeFolder(lastReorder.containerItem)
    /\ ~sameFolders(lastReorder.item, lastReorder.containerItem)
    /\ Len(lastReorder.item.folder.content) = 2
    /\ lastReorder.item.folder.id \in openedFolder
    /\ lastReorder.containerItem.folder.id \in openedFolder
    /\ openedFolder = lastReorder.opened

\* C28: every folder whose id is in the input and in the output of a drop
\* has the name it had, whatever the instruction and whether it is the
\* origin of the drag item, the container or unmatched; a folder made by
\* make-child has no name.
C28_FolderNamesKept ==
    Called =>
        \A g \in FoldersOf(lastReorder.newItems) :
            IF g.id \in FolderIdsOf(lastReorder.currentItems)
            THEN \A f \in FoldersOf(lastReorder.currentItems) :
                    f.id = g.id => g.name = f.name
            ELSE g.name = NoName

\* a bare space dropped next to a space of the named folder
C28_Witness ==
    /\ Called
    /\ IsReorder(lastReorder.instructionType)
    /\ IsBare(lastReorder.item)
    /\ IsFolderSpace(lastReorder.containerItem)
    /\ lastReorder.containerItem.folder.name # NoName
    /\ \E g \in FoldersOf(lastReorder.newItems) :
          /\ g.name = lastReorder.containerItem.folder.name
          /\ Len(g.content) = Len(lastReorder.containerItem.folder.content) + 1

\* the removal phase empties the folder of the drag item
EmptiesItsFolder(item, containerItem) ==
    /\ IsFolderSpace(item)
    /\ item.folder.content = <<item.spaceId>>
    /\ ~sameFolders(item, containerItem)

\* C14 as stated: computing newItems changes no state outside its result,
\* the opened-folder store included.
C14_PassLeavesOpenedFolder ==
    Called => openedFolder = lastReorder.opened

\* C14 amended: computing newItems changes no state outside its result but
\* the opened-folder store, from which it deletes the id of the folder the
\* removal phase empties and nothing else; the result is applied and
\* persisted after the pass, by the caller.
C14_PassOnlyClosesEmptiedFolder ==
    Called =>
        /\ openedFolder =
              IF EmptiesItsFolder(lastReorder.item, lastReorder.containerItem)
              THEN lastReorder.opened \ {lastReorder.item.folder.id}
              ELSE lastReorder.opened
        /\ sidebarItems = parseSidebar(orphanSpaces,
                                       makeCinnySpacesContent(lastReorder.newItems))
        /\ accountData = makeCinnySpacesContent(lastReorder.newItems)

\* the only space of an opened folder was dragged out next to a space of
\* another opened folder: the store lost the one id and kept the other
C14_Witness ==
    /\ Called
    /\ EmptiesItsFolder(lastReorder.item, lastReorder.containerItem)
    /\ IsFolderSpace(lastReorder.containerItem)
    /\ lastReorder.item.folder.id \in lastReorder.opened
    /\ lastReorder.item.folder.id \notin openedFolder
    /\ lastReorder.containerItem.folder.id \in openedFolder

---------------------------------------------------------------------------
(* Claims about one client session *)

\* C2: after any sequence of drops the drop targets can advertise and of
\* unpin actions, every space reference is in at most one place of the
\* sidebar: one bare top-level item or the content of exactly one folder.
C2_SpaceInAtMostOnePlace ==
    \A s \in Spaces : Occurrences(sidebarItems, s) <= 1

\* a drop merged two items into a folder after an earlier unpin
C2_Witness ==
    /\ Called
    /\ SpacesOf(lastReorder.currentItems) # Spaces
    /\ lastReorder.instructionType = MakeChild
    /\ \E f \in FoldersOf(sidebarItems) : Len(f.content) > 1
    /\ sidebarItems # lastReorder.currentItems

FitForMakeChild(containerItem) ==
    \/ IsBare(containerItem)
    \/ /\ IsWholeFolder(containerItem)
       /\ ~containerItem.open
       /\ containerItem.folder.id \notin openedFolder

\* C9: a drop target records make-child only when its item is a bare space
\* or a closed folder, never for a space inside a folder or an open folder
\* header, and onReorder is never called with make-child on such a container.
C9_MakeChildOnlyOnSpaceOrClosedFolder ==
    /\ \A k \in DOMAIN dropTargets :
          dropTargets[k].instructionType = MakeChild
              => FitForMakeChild(dropTargets[k].item)
    /\ (Called /\ lastReorder.instructionType = MakeChild)
          => /\ ~IsFolderSpace(lastReorder.containerItem)
             /\ ~lastReorder.containerItem.type = "object"
                   \/ ~lastReorder.containerItem.open

\* the pointer asked for make-child on a space inside a folder
C9_Witness ==
    /\ Len(dropTargets) = 1
    /\ IsFolderSpace(dropTargets[1].item)
    /\ dropTargets[1].instructionType = InstructionBlocked

\* C10: no drop target accepts the drag of its own item, be it a bare space,
\* a space inside a folder or a folder, so onReorder is never called with a
\* drag item equal to its container.
C10_NoSelfDrop ==
    /\ \A k \in DOMAIN dropTargets :
          /\ dropTargets[k].item # source
          /\ EntityOf(dropTargets[k].item) # EntityOf(source)
    /\ Called => /\ lastReorder.item # lastReorder.containerItem
                 /\ EntityOf(lastReorder.item) # EntityOf(lastReorder.containerItem)

\* a closed folder, itself a drop target, is dragged over another target
C10_Witness ==
    /\ source # NoDrag
    /\ IsWholeFolder(source)
    /\ source \in TreeDropTargets
    /\ Len(dropTargets) = 1
    /\ dropTargets[1].item # source

----------------------------------------------------------------------------
(* The sidebar replaced by another session while an item is dragged *)

MaxExternal == 1

\* the sidebars another session can write from items: one space of the
\* sidebar unpinned, or one space that is not in it pinned at the end of the
\* top level or of a folder
ExternalSidebars(items) ==
    {sidebarItemWithout(items, s) : s \in SpacesOf(items) \ orphanSpaces}
        \cup {Append(items, Str(s)) : s \in Spaces \ SpacesOf(items)}
        \cup UNION {{[items EXCEPT ![k].content = Append(@, s)] :
                        s \in Spaces \ SpacesOf(items)} :
                     k \in {j \in DOMAIN items : items[j].type = "object"}}

\* the session starts from a sidebar with a folder, its folders opened
InitExternal ==
    /\ sidebarItems \in SidebarsOver(Spaces, 1)
    /\ WellFormed(sidebarItems)
    /\ Len(sidebarItems) > 0
    /\ FolderIdsOf(sidebarItems) # {}
    /\ openedFolder = FolderIdsOf(sidebarItems)
    /\ orphanSpaces = {}
    /\ draggingItem = UndefinedItem
    /\ source = NoDrag
    /\ dropTargets = <<>>
    /\ accountData = makeCinnySpacesContent(sidebarItems)
    /\ lastReorder = NoCall
    /\ sink = NoWrites

\* useSidebarItems: the account data written by another session arrives
\* while an item is dragged and replaces the sidebar
ExternalUpdate ==
    /\ source # NoDrag
    /\ sink.external < MaxExternal
    /\ \E items \in ExternalSidebars(sidebarItems) :
          /\ accountData' = makeCinnySpacesContent(items)
          /\ sidebarItems' = parseSidebar(orphanSpaces, accountData')
    /\ sink' = [sink EXCEPT !.log = <<>>, !.external = @ + 1]
    /\ UNCHANGED <<openedFolder, orphanSpaces, draggingItem, source, dropTargets,
                   lastReorder>>

\* a pick-up, in a session whose sidebar no other session has replaced yet
DragStartExternal ==
    /\ sink.external < MaxExternal
    /\ DragStart

NextExternal ==
    \/ DragStartExternal
    \/ DragOverTree
    \/ DragOverHeader
    \/ DragLeave
    \/ ExternalUpdate
    \/ DropReorder
    \/ DropNothing

SpecExternal == InitExternal /\ [][NextExternal]_vars

---------------------------------------------------------------------------
(* Claims about local echo and persistence *)

\* the last handler was a drop commit and nothing has settled since
AfterDropCommit == Called /\ sink.log # <<>>

\* C11: on every drop commit the in-memory sidebar is first updated to the
\* reconciled structure and then exactly one persistence write is issued,
\* carrying the serialization of that same structure; the sidebar holds the
\* update while the write is still in flight.
C11_EchoThenOneWrite ==
    AfterDropCommit =>
        LET log == sink.log
            writes == {k \in DOMAIN log : IsWrite(log[k])}
            echoes == {k \in DOMAIN log : IsEcho(log[k])}
        IN  /\ Cardinality(writes) = 1
            /\ Cardinality(echoes) = 1
            /\ \A e \in echoes, w \in writes :
                  /\ e < w
                  /\ log[e].items = lastReorder.newItems
                  /\ log[w].content = makeCinnySpacesContent(lastReorder.newItems)
                  /\ sidebarItems = log[e].items
                  /\ \E k \in DOMAIN sink.inFlight :
                        sink.inFlight[k].content = log[w].content
            /\ sink.issued = sink.commits

\* a drop commit changed the sidebar while the write of the action before it
\* was still in flight
C11_Witness ==
    /\ AfterDropCommit
    /\ Len(sink.inFlight) = 2
    /\ sidebarItems = lastReorder.newItems
    /\ sidebarItems # lastReorder.currentItems
    /\ sink.inFlight[1].content # sink.inFlight[2].content

\* C12: when the write of a drop commit or of an unpin fails, the in-memory
\* sidebar stays the locally echoed result of the latest action, is not rolled
\* back, and no second write is issued for the action.
C12_RejectedWriteKeepsEcho ==
    sink.settled = "rejected" =>
        /\ sidebarItems = parseSidebar(orphanSpaces, accountData)
        /\ Called => sidebarItems = lastReorder.newItems
        /\ sink.issued = sink.commits
        /\ Len(sink.inFlight) < sink.commits

\* the only write issued, that of a drop commit that changed the sidebar,
\* was rejected
C12_Witness ==
    /\ sink.settled = "rejected"
    /\ sink.commits = 1
    /\ sink.inFlight = <<>>
    /\ Called
    /\ sidebarItems = lastReorder.newItems
    /\ sidebarItems # lastReorder.currentItems

\* the drag item and the hovered drop target refer to the sidebar as it is now
CapturedIsCurrent ==
    /\ source # NoDrag => source \in DragShapes(sidebarItems)
    /\ \A k \in DOMAIN dropTargets :
          dropTargets[k].item \in ContainerShapes(sidebarItems)

\* a step that changes the sidebar or the persisted content is an unpin or
\* a drop commit computed from the sidebar the step starts in, and hands the
\* serialization of its result to the sink
EditFromCurrent ==
    (sidebarItems' # sidebarItems \/ accountData' # accountData) =>
        /\ accountData' = makeCinnySpacesContent(sidebarItems')
        /\ \/ \E roomId \in SpacesOf(sidebarItems) :
                 sidebarItems' = sidebarItemWithout(sidebarItems, roomId)
           \/ IF source = NoDrag \/ Len(dropTargets) = 0 THEN FALSE
              ELSE \E newId \in FolderIds \cup {Undefined} :
                      sidebarItems' = reconcile(sidebarItems, source,
                                                dropTargets[1].item,
                                                dropTargets[1].instructionType, newId)

\* C13: within one session, after any sequence of drop commits and unpins
\* the content last handed to the persistence sink corresponds to the
\* in-memory sidebar, and every edit is computed from the sidebar the edit
\* before it left, with a drag item and a container that refer to it.
C13_LocalEditsChain ==
    /\ [](sidebarItems = parseSidebar(orphanSpaces, accountData))
    /\ []CapturedIsCurrent
    /\ [][EditFromCurrent]_vars

\* a reorder committed after an unpin, both visible in the persisted content
C13_Witness ==
    /\ Called
    /\ IsReorder(lastReorder.instructionType)
    /\ SpacesOf(lastReorder.currentItems) # Spaces
    /\ sidebarItems # lastReorder.currentItems
    /\ accountData = makeCinnySpacesContent(sidebarItems)
    /\ accountData.sidebar = lastReorder.newItems

\* C15: the dragging indicator holds the dragged item from the start of a
\* drag until its drop, and is undefined after every drop, on a drop target
\* or not, with an instruction recorded or not.
C15_IndicatorFollowsDrag ==
    /\ source # NoDrag => draggingItem = source
    /\ source = NoDrag => draggingItem = UndefinedItem

\* a space dragged out of a folder has been dropped and committed
C15_Witness ==
    /\ Called
    /\ IsFolderSpace(lastReorder.item)
    /\ source = NoDrag
    /\ draggingItem = UndefinedItem
    /\ draggingItem # lastReorder.item

\* C16: in every sidebar reached by drops and unpins from a well-formed one
\* the folder ids are pairwise distinct, the id minted for a folder made by
\* make-child included, and no folder's content lists a space id twice.
C16_FolderIdsAndContentsDistinct ==
    /\ \A j, k \in DOMAIN sidebarItems :
          (sidebarItems[j].type = "object" /\ sidebarItems[k].type = "object" /\ j # k)
              => sidebarItems[j].id # sidebarItems[k].id
    /\ \A f \in FoldersOf(sidebarItems) :
          \A a, b \in DOMAIN f.content : a # b => f.content[a] # f.content[b]
    /\ (Called /\ lastReorder.instructionType = MakeChild
               /\ IsBare(lastReorder.containerItem))
          => \E k \in DOMAIN sidebarItems :
                /\ sidebarItems[k].type = "object"
                /\ sidebarItems[k].id \notin FolderIdsOf(lastReorder.currentItems)
                /\ \A j \in DOMAIN sidebarItems :
                      (j # k /\ sidebarItems[j].type = "object")
                          => sidebarItems[j].id # sidebarItems[k].id

\* make-child on a bare space made a folder of two spaces next to a folder
\* that was there before
C16_Witness ==
    /\ Called
    /\ lastReorder.instructionType = MakeChild
    /\ IsBare(lastReorder.containerItem)
    /\ Cardinality(FolderIdsOf(sidebarItems)) = 2
    /\ FolderIdsOf(lastReorder.currentItems) \subseteq FolderIdsOf(sidebarItems)
    /\ \E f \in FoldersOf(sidebarItems) :
          /\ f.id \notin FolderIdsOf(lastReorder.currentItems)
          /\ Len(f.content) = 2

\* C25: for every drop the handler processes, whatever instruction type the
\* drop target recorded, 'instruction-blocked' included, the sidebar after
\* the drop holds exactly the space ids it held before the drop.
C25_DropKeepsSpaces ==
    Called => SpacesOf(sidebarItems) = SpacesOf(lastReorder.currentItems)

\* the writes among the calls of the last handler
WritesOf(log) == {k \in DOMAIN log : IsWrite(log[k])}

\* a step that completes a drop
DropStep == source # NoDrag /\ source' = NoDrag

\* the drop lands on no drop target or on one that recorded no instruction
NothingToCommit ==
    IF Len(dropTargets) = 0 THEN TRUE
    ELSE dropTargets[1].instructionType = Undefined

\* C24: a completed drop on no drop target, or on a drop target that
\* recorded no instruction, leaves the in-memory sidebar and the
\* opened-folder store as they are and issues no persistence write; a
\* completed drop runs the reconciler at most once.
C24_DropWithoutInstructionIsInert ==
    [][DropStep =>
          /\ NothingToCommit =>
                /\ sidebarItems' = sidebarItems
                /\ openedFolder' = openedFolder
                /\ accountData' = accountData
                /\ WritesOf(sink'.log) = {}
                /\ ~lastReorder'.called
          /\ ~NothingToCommit =>
                /\ lastReorder'.called
                /\ lastReorder'.currentItems = sidebarItems
                /\ sidebarItems' = lastReorder'.newItems
                /\ Cardinality(WritesOf(sink'.log)) = 1]_vars

\* a drag ended without effect in a session that had unpinned a space before
C24_Witness ==
    /\ source = NoDrag
    /\ sink.log = <<clearDragging>>
    /\ ~Called
    /\ SpacesOf(sidebarItems) # Spaces
    /\ accountData = makeCinnySpacesContent(sidebarItems)

\* C29: an unpin request for an orphan space leaves the in-memory sidebar
\* as it is and issues no persistence write; an unpin request for any other
\* space applies the local echo and issues exactly one persistence write
\* with the same content; the unpin action is offered only on tabs of
\* spaces that are not orphan spaces.
C29_UnpinSparesOrphans ==
    /\ [](UnpinOffered \cap orphanSpaces = {})
    /\ [][\A roomId \in Spaces :
            sink'.request = roomId =>
                IF roomId \in orphanSpaces
                THEN /\ sidebarItems' = sidebarItems
                     /\ accountData' = accountData
                     /\ sink'.log = <<>>
                     /\ sink'.inFlight = sink.inFlight
                     /\ sink'.issued = sink.issued
                ELSE LET log == sink'.log
                     IN  /\ Len(log) = 2
                         /\ IsEcho(log[1])
                         /\ IsWrite(log[2])
                         /\ log[1].items = parseSidebar(orphanSpaces, log[2].content)
                         /\ sidebarItems' = log[1].items
                         /\ accountData' = log[2].content
                         /\ roomId \notin SpacesOf(sidebarItems')
                         /\ sink'.issued = sink.issued + 1
                         /\ Len(sink'.inFlight) = Len(sink.inFlight) + 1]_vars

\* an unpin of an orphan space was requested after another space was
\* unpinned, the orphan space still in the sidebar
C29_Witness ==
    /\ sink.request \in orphanSpaces
    /\ sink.request \in SpacesOf(sidebarItems)
    /\ sink.commits > 0
    /\ ~Called
    /\ SpacesOf(sidebarItems) # Spaces

\* the spaces the drag item moves, read from the sidebar the drop ran on
MovedSpaces ==
    LET item == lastReorder.item
        cur == lastReorder.currentItems
    IN  IF item.type = "string" THEN {item.id}
        ELSE IF Truthy(item.spaceId) THEN {item.spaceId}
        ELSE UNION {Range(f.content) : f \in {g \in FoldersOf(cur) : g.id = item.folder.id}}

\* C26: when the sidebar is replaced by an external update between the
\* pick-up of an item and its drop, the folders written by the drop are
\* derived from the sidebar current at drop time: the drop of an instruction
\* loses no space of that sidebar and brings back no space that is not in it,
\* the moved spaces aside.
C26_DropDerivedFromCurrent ==
    (Called /\ lastReorder.instructionType \in Instructions) =>
        /\ SpacesOf(lastReorder.currentItems) \subseteq SpacesOf(lastReorder.newItems)
        /\ SpacesOf(lastReorder.newItems)
              \subseteq SpacesOf(lastReorder.currentItems) \cup MovedSpaces

====
